---- MODULE Spec2Model ----
(***************************************************************************)
(* Model of the synthwave flight simulation (nlnlh/synthwave): the object  *)
(* pool recycler (City, SpeedLines), the radial spectrum mapper (Spectrum),*)
(* the terrain displacement (Terrain) and the flight camera rig.           *)
(*                                                                         *)
(* Numbers.  World coordinates, colours, scales and angles are fixed-point *)
(* integers in thousandths (1000 = 1.0); times are integer milliseconds.   *)
(* Math.random() is a generator whose state is the variable rng; a draw    *)
(* returns rng / RandMod in [0, 1) and steps the generator.                *)
(***************************************************************************)
EXTENDS Integers, Sequences, FiniteSets, TLC

VARIABLES
    elapsedTime,   \* state.clock.elapsedTime, in ms
    delta,         \* the delta handed to the callbacks of the current frame, ms
    pc,            \* the useFrame callback the render loop runs next, or "idle"
    frames,        \* number of frames started so far (bounds the run)
    rng,           \* state of Math.random()
    buildings,     \* City: the building meshes, one record per mesh
    lines,         \* SpeedLines: the streak meshes, one record per mesh
    mounted,       \* Spectrum is mounted (its effect ran, its cleanup did not)
    elAnalyser,    \* audioEl.__analyser: <<>> or <<analyser>>
    elCaptured,    \* a media-element source node exists for the audio element
    paused,        \* audioEl.paused
    ctxState,      \* state of the AudioContext the effect holds in ctx, or "none"
    playListeners, \* number of handlePlay listeners on the audio element
    contexts,      \* number of AudioContexts constructed so far (none is closed)
    routed,        \* the source node is connected to the analyser and the
                   \* analyser to ctx.destination
    analyserRef,   \* analyserRef.current: <<>> or <<analyser>>
    dataArrayRef,  \* dataArrayRef.current: <<>> or <<Uint8Array>>
    bars,          \* the instances of the spectrum's InstancedMesh
    uTime,         \* Terrain: the uTime uniform of the grid material
    camera,        \* state.camera: position and rotation.z (roll)
    replay,        \* the camera of a second, independent run of the rig that
                   \* is fed the same elapsed times
    isEntered,     \* App: isEntered (the HUD is mounted exactly when it is set)
    hud,           \* CommsSystem: the state of the mounted instance
    currentTime,   \* audioEl.currentTime, in track positions
    volume,        \* audioEl.volume, in thousandths
    playTimers,    \* pending 200 ms timers set by the mounted HUD
    strayTimers,   \* pending 200 ms timers set by a HUD since unmounted
    recognition,   \* the SpeechRecognition session of the mounted HUD
    fading,        \* the fadeAudio interval of the mounted HUD is running
    pending,       \* chat-completion requests in flight, sent by the mounted HUD
    orphaned,      \* chat-completion requests in flight, sent by a HUD since
                   \* unmounted
    entries        \* number of times the world was entered (bounds the run)

clockVars == <<elapsedTime, delta, frames>>
poolVars == <<rng, buildings, lines>>
audioVars == <<elAnalyser, elCaptured, paused, ctxState, playListeners,
               contexts, routed>>
spectrumVars == <<mounted, analyserRef, dataArrayRef, bars>>

rigVars == <<camera, replay>>

commsVars == <<isEntered, hud, currentTime, volume, playTimers, strayTimers,
               recognition, fading, pending, orphaned, entries>>

vars == <<clockVars, pc, poolVars, audioVars, spectrumVars, uTime, rigVars, commsVars>>

----------------------------------------------------------------------------
(* Bounds of the model *)

\* frames of a run of the render loop alone
MaxFrames == 3

\* frames of a run in which the audio tap is mounted, unmounted and played
MaxTapFrames == 1

\* pointer positions (state.pointer, normalized device coordinates)
Pointers == {[x |-> 0, y |-> 0], [x |-> 1000, y |-> -500]}

\* the analysis frames the audio pipeline may have completed when read
Patterns == {"silence", "ramp", "loud"}

\* the seeds of Math.random() the runs start from
Seeds == {0, 29}

\* AudioContexts the platform lets a page hold open; the constructor throws
\* beyond it
MaxContexts == 2

\* frame deltas in ms: a zero delta, a 60 fps frame, a slow frame, and a
\* frame after the tab was suspended
Deltas == {0, 16, 800, 6000}

----------------------------------------------------------------------------
(* Math.random() *)

RandMod == 40

\* Math.random() > 0.5
MoreThanHalf(r) == 2 * r > RandMod

RandStep(r) == (r + 17) % RandMod

\* the generator state after n draws
RandSkip(r, n) == (r + n * RandStep(0)) % RandMod

----------------------------------------------------------------------------
(* City: generateBuildings and the per-frame recycler *)

BuildingCount == 120
BuildingSpeed == 30
BuildingRespawnZ == -150000
BuildingDespawnZ == 20000
RoadWidth == 10000

\* side * (roadWidth / 2 + Math.random() * 30 + 5), two draws starting at r
LateralX(r) ==
    LET side == IF MoreThanHalf(r) THEN 1 ELSE -1
        r2   == RandStep(r)
    IN  side * (RoadWidth \div 2 + (r2 * 30000) \div RandMod + 5000)

\* one iteration of the loop of generateBuildings: seven draws starting at r
GenerateBuilding(r) ==
    LET rz == RandSkip(r, 2)
        rw == RandSkip(r, 3)
        rd == RandSkip(r, 4)
        rh == RandSkip(r, 5)
        rc == RandSkip(r, 6)
        width  == (rw * 4000) \div RandMod + 2000
        depth  == (rd * 4000) \div RandMod + 2000
        height == (rh * 20000) \div RandMod + 5000
    IN  [x |-> LateralX(r),
         y |-> height \div 2 - 2000,
         z |-> -((rz * 160000) \div RandMod),
         width |-> width, height |-> height, depth |-> depth,
         edgeColor |-> IF MoreThanHalf(rc) THEN "#00ffff" ELSE "#ff00ff"]

generateBuildings(count, r) ==
    [i \in 1..count |-> GenerateBuilding(RandSkip(r, 7 * (i - 1)))]

BuildingPassedAtThreshold(z) == z >= BuildingDespawnZ

\* if (mesh.position.z > 20)
BuildingPassed(z) == z > BuildingDespawnZ

RespawnBuildingWrapped(mesh, r) ==
    [mesh EXCEPT !.z = @ - (BuildingDespawnZ - BuildingRespawnZ),
                 !.x = LateralX(r)]

\* a respawn that draws x over the whole width of the city, road included
RespawnBuildingAnywhere(mesh, r) ==
    [mesh EXCEPT !.z = BuildingRespawnZ,
                 !.x = (r * 80000) \div RandMod - 40000]

\* the body of the if: back to the horizon, x redrawn
RespawnBuilding(mesh, r) ==
    [mesh EXCEPT !.z = BuildingRespawnZ, !.x = LateralX(r)]

\* an advance away from the camera
BuildingAdvanceAway(mesh, dt) == [mesh EXCEPT !.z = @ - BuildingSpeed * dt]

\* mesh.position.z += speed * delta
BuildingAdvance(mesh, dt) == [mesh EXCEPT !.z = @ + BuildingSpeed * dt]

\* a callback that respawns a building on the side opposite to the mesh before
\* it in the pool
CityStepBesidePrevious(meshes, i, dt, r) ==
    LET advanced == BuildingAdvance(meshes[i], dt)
        previous == meshes[IF i = 1 THEN Len(meshes) ELSE i - 1]
    IN  [meshes EXCEPT ![i] =
            IF BuildingPassed(advanced.z)
            THEN [RespawnBuilding(advanced, r) EXCEPT !.x = -previous.x]
            ELSE advanced]

\* the callback of the forEach of City useFrame, run on mesh i of the pool
\* with the generator at r
CityStep(meshes, i, dt, r) ==
    LET advanced == BuildingAdvance(meshes[i], dt)
    IN  [meshes EXCEPT ![i] =
            IF BuildingPassed(advanced.z)
            THEN RespawnBuilding(advanced, r)
            ELSE advanced]

CityFrameDropping(meshes, dt, r) ==
    LET kept(m) == ~BuildingPassed(BuildingAdvance(m, dt).z)
    IN  [meshes |-> SelectSeq(meshes, kept), rng |-> r]

\* City useFrame: the forEach over the meshes.  Mesh i is advanced, and if it
\* passed the camera it is respawned with the two draws that follow the draws
\* of the meshes respawned before it in the loop.
CityFrame(meshes, dt, r) ==
    LET passed(i) == BuildingPassed(BuildingAdvance(meshes[i], dt).z)
        drawsBefore(i) == 2 * Cardinality({j \in 1..(i - 1) : passed(j)})
    IN  [meshes |-> [i \in 1..Len(meshes) |->
                        CityStep(meshes, i, dt, RandSkip(r, drawsBefore(i)))[i]],
         rng |-> RandSkip(r, drawsBefore(Len(meshes) + 1))]

----------------------------------------------------------------------------
(* SpeedLines *)

LineCount == 30
\* the multiplier of the Scene that has no flight rig
LineSpeedFactorOfStaticScene == 40

\* lines[i].speed * 80
LineSpeedFactor == 80
LineRespawnZ == -100000
LineDespawnZ == 10000

\* one element of the lines array: five draws starting at r
GenerateLine(r) ==
    [x |-> (r * 60000) \div RandMod - 30000,
     y |-> (RandStep(r) * 20000) \div RandMod,
     z |-> -((RandSkip(r, 2) * 100000) \div RandMod),
     speed |-> (RandSkip(r, 3) * 500) \div RandMod + 500,
     length |-> (RandSkip(r, 4) * 10000) \div RandMod + 5000]

generateLines(count, r) ==
    [i \in 1..count |-> GenerateLine(RandSkip(r, 5 * (i - 1)))]

\* if (mesh.position.z > 10)
LinePassed(z) == z > LineDespawnZ

\* a respawn that builds the streak anew, speed included
RespawnLineAnew(mesh, r) ==
    [mesh EXCEPT !.z = LineRespawnZ,
                 !.x = (r * 60000) \div RandMod - 30000,
                 !.y = (RandStep(r) * 20000) \div RandMod,
                 !.speed = (RandSkip(r, 2) * 500) \div RandMod + 500]

RespawnLine(mesh, r) ==
    [mesh EXCEPT !.z = LineRespawnZ,
                 !.x = (r * 60000) \div RandMod - 30000,
                 !.y = (RandStep(r) * 20000) \div RandMod]

\* mesh.position.z += lines[i].speed * 80 * delta
LineAdvance(mesh, dt) ==
    [mesh EXCEPT !.z = @ + (mesh.speed * LineSpeedFactor * dt) \div 1000]

\* the callback of the forEach of SpeedLines useFrame, run on mesh i
LinesStep(meshes, i, dt, r) ==
    LET advanced == LineAdvance(meshes[i], dt)
    IN  [meshes EXCEPT ![i] =
            IF LinePassed(advanced.z)
            THEN RespawnLine(advanced, r)
            ELSE advanced]

\* SpeedLines useFrame: the forEach over the meshes, as in CityFrame
LinesFrame(meshes, dt, r) ==
    LET passed(i) == LinePassed(LineAdvance(meshes[i], dt).z)
        drawsBefore(i) == 2 * Cardinality({j \in 1..(i - 1) : passed(j)})
    IN  [meshes |-> [i \in 1..Len(meshes) |->
                        LinesStep(meshes, i, dt, RandSkip(r, drawsBefore(i)))[i]],
         rng |-> RandSkip(r, drawsBefore(Len(meshes) + 1))]

----------------------------------------------------------------------------
(* Math.sin, Math.cos, Math.PI: fixed-point, angles in thousandths of a     *)
(* radian.  Sin is Bhaskara's rational approximation on a half period, exact *)
(* at 0 and at the quarter period and within 0.002 of the sine elsewhere.    *)

Pi == 3142

HalfSine(x) ==
    LET p == x * (Pi - x)
    IN  (16 * p) \div ((5 * Pi * Pi - 4 * p) \div 1000)

Sin(a) ==
    LET x == a % (2 * Pi)
    IN  IF x <= Pi THEN HalfSine(x) ELSE -HalfSine(x - Pi)

Cos(a) == Sin(a + Pi \div 2)

Max(a, b) == IF a >= b THEN a ELSE b
Min(a, b) == IF a <= b THEN a ELSE b

----------------------------------------------------------------------------
(* Spectrum: the analyser tap and the radial spectrum mapper *)

BarCount == 16
\* an FFT size equal to the number of bars
FftSizeAsBarCount == BarCount

\* analyser.fftSize = 32
FftSize == 32
BaseRadius == 65

\* AnalyserNode.frequencyBinCount
FrequencyBinCount(analyser) == analyser.fftSize \div 2

\* ctx.createAnalyser(); analyser.fftSize = 32
CreateAnalyser == [fftSize |-> FftSize]

\* new Uint8Array(n)
Uint8Array(n) == [i \in 1..n |-> 0]

\* the byte frequency data of the latest completed analysis window
FrequencyData(pattern, n) ==
    [i \in 1..n |->
        CASE pattern = "silence" -> 0
          [] pattern = "loud"    -> 255
          [] OTHER               -> IF n = 1 THEN 255 ELSE ((i - 1) * 255) \div (n - 1)]

\* analyser.getByteFrequencyData(array): fills array, up to its length
GetByteFrequencyData(analyser, pattern, array) ==
    LET src == FrequencyData(pattern, FrequencyBinCount(analyser))
    IN  [i \in 1..Len(array) |-> IF i <= Len(src) THEN src[i] ELSE array[i]]

\* an element read past the end of a typed array
Undefined == -1

\* dataArrayRef.current[i], i counted from 0
ArrayAt(array, i) == IF i + 1 <= Len(array) THEN array[i + 1] ELSE Undefined

\* data / 100.0 - 1.2
Intensity(data) == data * 10 - 1200

ScaleYUnclamped(data) == Intensity(data) * 40

\* Math.max(0, intensity * 40)
ScaleY(data) == Max(0, Intensity(data) * 40)

\* intensity * intensity * 1.2
LerpAlpha(data) == (Intensity(data) * Intensity(data) * 12) \div 10000

ColorA == [r |-> 0, g |-> 1000, b |-> 1000]
ColorB == [r |-> 1000, g |-> 0, b |-> 1000]

\* THREE.Color.lerp: this += (color - this) * alpha, per channel, unclamped
ColorLerp(c, d, alpha) ==
    [r |-> c.r + ((d.r - c.r) * alpha) \div 1000,
     g |-> c.g + ((d.g - c.g) * alpha) \div 1000,
     b |-> c.b + ((d.b - c.b) * alpha) \div 1000]

\* an instance no frame has written yet
UnwrittenBar ==
    [written |-> FALSE, nan |-> FALSE, data |-> 0, scaleY |-> 0, width |-> 0,
     x |-> 0, y |-> 0, z |-> 0, rotation |-> 0, color |-> ColorA]

\* one iteration of the loop of Spectrum useFrame, for bar i counted from 0;
\* arithmetic on an undefined element yields NaN
SpectrumBar(i, array) ==
    LET data  == ArrayAt(array, i)
        angle == (i * 2 * Pi) \div BarCount
    IN  [written  |-> TRUE,
         nan      |-> data = Undefined,
         data     |-> data,
         scaleY   |-> IF data = Undefined THEN 0 ELSE ScaleY(data),
         width    |-> ((2 * Pi * BaseRadius) \div BarCount) \div 2,
         x        |-> Cos(angle) * BaseRadius,
         y        |-> 25000 + Sin(angle) * BaseRadius,
         z        |-> -150000,
         rotation |-> angle - Pi \div 2,
         color    |-> IF data = Undefined THEN ColorA
                      ELSE ColorLerp(ColorA, ColorB, LerpAlpha(data))]

----------------------------------------------------------------------------
(* BuildingMaterial: the horizon fade of the fragment shader *)

\* the fade start named in the comment of the fragment shader
UFadeZOfShaderComment == -150000

\* uFadeZ: -140.0
UFadeZ == -140000
UVisibleZ == -80000

Clamp(x, lo, hi) == Min(Max(x, lo), hi)

SmoothstepUnclamped(edge0, edge1, x) ==
    LET t == ((x - edge0) * 1000) \div (edge1 - edge0)
    IN  (t * t * (3000 - 2 * t)) \div 1000000

\* GLSL smoothstep: t = clamp((x - edge0) / (edge1 - edge0), 0, 1);
\* t * t * (3 - 2 * t)
Smoothstep(edge0, edge1, x) ==
    LET t == Clamp(((x - edge0) * 1000) \div (edge1 - edge0), 0, 1000)
    IN  (t * t * (3000 - 2 * t)) \div 1000000

\* float alpha = smoothstep(uFadeZ, uVisibleZ, vZ)
BuildingAlpha(vZ) == Smoothstep(UFadeZ, UVisibleZ, vZ)

----------------------------------------------------------------------------
(* Terrain: the vertex shader of GridMaterial.  u, v are uv.x, uv.y and t is *)
(* uTime in ms.                                                              *)

\* float dist = abs(uv.x - 0.5) * 2.0
TerrainDist(u) == (IF u >= 500 THEN u - 500 ELSE 500 - u) * 2

\* float factor = (dist - 0.4) / 0.6
SlopeFactor(u) == ((TerrainDist(u) - 400) * 1000) \div 600

\* waveZ + waveX
TerrainWaves(u, v, t) == Sin(v * 10 + t * 12) * 2 + Cos(u * 20) * 2

ElevationUnscaledWaves(u, v, t) ==
    IF TerrainDist(u) > 400
    THEN LET factor == SlopeFactor(u)
         IN  (((factor * factor * factor) \div 1000) * 30) \div 1000
             + TerrainWaves(u, v, t)
    ELSE 0

\* the elevation the shader adds to the vertex
Elevation(u, v, t) ==
    IF TerrainDist(u) > 400
    THEN LET factor == SlopeFactor(u)
         IN  (((factor * factor * factor) \div 1000) * 30) \div 1000
             + (TerrainWaves(u, v, t) * factor) \div 1000
    ELSE 0

----------------------------------------------------------------------------
(* FlightCameraRig *)

InitialCamera == [x |-> 0, y |-> 3000, z |-> 10000, roll |-> 0]

\* a lerp with its end points exchanged
LerpSwapped(x, y, t) == (t * x + (1000 - t) * y) \div 1000

\* THREE.MathUtils.lerp(x, y, t) = (1 - t) * x + t * y
Lerp(x, y, t) == ((1000 - t) * x + t * y) \div 1000

RECURSIVE NewtonSqrt(_, _)
NewtonSqrt(n, r) ==
    LET r2 == (r + n \div r) \div 2
    IN  IF r2 >= r THEN r ELSE NewtonSqrt(n, r2)

\* Math.sqrt on integers
Sqrt(n) == IF n <= 0 THEN 0 ELSE NewtonSqrt(n, n)

\* camera.lookAt(target) with up = (0, 1, 0), then camera.rotation.z: the
\* Euler z of the look-at matrix, atan2(zx * zy / |z|, zz) for z = eye - target;
\* the angle is below 0.03 rad here and atan(a) is taken as a
LookAtRoll(eye, target) ==
    LET zx  == eye.x - target.x
        zy  == eye.y - target.y
        zz  == eye.z - target.z
        len == 10 * Sqrt((zx \div 10) * (zx \div 10) + (zy \div 10) * (zy \div 10)
                         + (zz \div 10) * (zz \div 10))
    IN  (zx * zy) \div ((len \div 10) * (zz \div 100))

\* the sum-of-sines target of the frame at elapsed time t (ms): speed = 0.5
RigTargetX(t) ==
    Sin((t * 25) \div 100) * 3 + Sin((t * 65) \div 100) * 3 + Cos(t \div 10) * 2

RigTargetY(t) ==
    6000 + Sin((t * 35) \div 100) * 3 + Cos((t * 75) \div 100)

\* dx of the frame
RigDx(t) ==
    (Cos((t * 25) \div 100) * 15 + Cos((t * 65) \div 100) * 39
     - Sin(t \div 10) * 4) \div 10

\* jitterFreq = 25, jitterAmp = 0.03
JitterX(t) == (Sin(t * 25) * 30) \div 1000
JitterY(t) == (Cos(t * 30) * 30) \div 1000
JitterRot(t) == (Sin((t * 375) \div 10) * 15) \div 1000

\* a rig whose smoothing factor grows with the frame delta (6 per second,
\* at most 1), as a frame-rate independent smoothing would
FlightCameraRigDeltaScaled(cam, t, pointer, dt) ==
    LET x == RigTargetX(t)
        y == RigTargetY(t)
        k == Min(1000, 6 * dt)
        moved == [cam EXCEPT !.x = Lerp(cam.x, x + JitterX(t), k),
                             !.y = Lerp(cam.y, y + JitterY(t), k)]
        lookTarget == [x |-> x \div 2, y |-> y \div 2 - 10000, z |-> -100000]
        targetRoll == (-RigDx(t) * 2) \div 10
    IN  [moved EXCEPT !.roll = Lerp(LookAtRoll(moved, lookTarget),
                                    targetRoll + JitterRot(t), k)]

\* a rig that also flies the camera forward along the travel axis
FlightCameraRigDollying(cam, t, pointer, dt) ==
    LET x == RigTargetX(t)
        y == RigTargetY(t)
        moved == [cam EXCEPT !.x = Lerp(cam.x, x + JitterX(t), 100),
                             !.y = Lerp(cam.y, y + JitterY(t), 100),
                             !.z = cam.z - dt \div 2]
        lookTarget == [x |-> x \div 2, y |-> y \div 2 - 10000, z |-> -100000]
        targetRoll == (-RigDx(t) * 2) \div 10
    IN  [moved EXCEPT !.roll = Lerp(LookAtRoll(moved, lookTarget),
                                    targetRoll + JitterRot(t), 100)]

\* a rig that also follows the pointer, as a mouse-parallax rig does
PointerCameraRig(cam, t, pointer, dt) ==
    LET x == RigTargetX(t) + pointer.x * 4
        y == RigTargetY(t)
        moved == [cam EXCEPT !.x = Lerp(cam.x, x + JitterX(t), 100),
                             !.y = Lerp(cam.y, y + JitterY(t), 100)]
        lookTarget == [x |-> x \div 2, y |-> y \div 2 - 10000, z |-> -100000]
        targetRoll == (-RigDx(t) * 2) \div 10
    IN  [moved EXCEPT !.roll = Lerp(LookAtRoll(moved, lookTarget),
                                    targetRoll + JitterRot(t), 100)]

\* FlightCameraRig useFrame.  The callback is handed the frame state (clock,
\* pointer, camera) and the frame delta; t is state.clock.elapsedTime.
FlightCameraRig(cam, t, pointer, dt) ==
    LET x == RigTargetX(t)
        y == RigTargetY(t)
        moved == [cam EXCEPT !.x = Lerp(cam.x, x + JitterX(t), 100),
                             !.y = Lerp(cam.y, y + JitterY(t), 100)]
        lookTarget == [x |-> x \div 2, y |-> y \div 2 - 10000, z |-> -100000]
        targetRoll == (-RigDx(t) * 2) \div 10
    IN  [moved EXCEPT !.roll = Lerp(LookAtRoll(moved, lookTarget),
                                    targetRoll + JitterRot(t), 100)]

----------------------------------------------------------------------------
(* The program *)

\* number of times the world is entered
MaxEntries == 2

\* number of delayed plays that may be pending at a time
MaxTimers == 1

\* number of messages a HUD holds before the user stops talking
MaxMessages == 2

\* positions of the looping track
TrackLength == 2

\* what the recogniser may hear: noise that trims to nothing, or a sentence
Transcripts == {" ", "fly low"}

\* how a request ends: a reply, a reply without content, a throw
Outcomes == {"reply", "empty", "throw"}

\* text.trim().length > 0
NonBlank(text) == text \notin {"", " "}

\* audio.volume when nothing ducks it, and while the HUD listens
VolumeFull == 1000
VolumeDucked == 100

\* the distance at which the fade snaps to its target
FadeSnap == 50

\* the useState initial values of CommsSystem
InitialHud ==
    [isMusicPlaying |-> TRUE, isAiEnabled |-> FALSE, isListening |-> FALSE,
     isProcessing |-> FALSE, transcription |-> "", messages |-> <<>>]

Init ==
    \E seed \in Seeds :
        /\ elapsedTime = 0
        /\ delta = 0
        /\ pc = "idle"
        /\ frames = 0
        /\ buildings = generateBuildings(BuildingCount, seed)
        /\ lines = generateLines(LineCount, RandSkip(seed, 7 * BuildingCount))
        /\ rng = RandSkip(seed, 7 * BuildingCount + 5 * LineCount)
        /\ mounted = FALSE
        /\ elAnalyser = <<>>
        /\ elCaptured = FALSE
        /\ paused = TRUE
        /\ ctxState = "none"
        /\ playListeners = 0
        /\ contexts = 0
        /\ routed = FALSE
        /\ analyserRef = <<>>
        /\ dataArrayRef = <<>>
        /\ bars = [i \in 1..BarCount |-> UnwrittenBar]
        /\ uTime = 0
        /\ camera = InitialCamera
        /\ replay = InitialCamera
        /\ isEntered = FALSE
        /\ hud = InitialHud
        /\ currentTime = 0
        /\ volume = VolumeFull
        /\ playTimers = 0
        /\ strayTimers = 0
        /\ recognition = "inactive"
        /\ fading = FALSE
        /\ pending = 0
        /\ orphaned = 0
        /\ entries = 0

\* an effect that creates the analyser before it captures the element, so that
\* a throw of createMediaElementSource leaves an analyser behind
SpectrumEffectAnalyserFirst(elPresent, failAt) ==
    /\ pc = "idle"
    /\ ~mounted
    /\ mounted' = TRUE
    /\ IF ~elPresent
       THEN UNCHANGED <<audioVars, analyserRef, dataArrayRef>>
       ELSE LET cached   == elAnalyser # <<>>
                built    == ~cached /\ failAt # "context"
                                    /\ contexts < MaxContexts
                captured == built /\ ~elCaptured /\ failAt # "source"
                analyser == IF cached THEN elAnalyser
                            ELSE IF built THEN <<CreateAnalyser>>
                            ELSE <<>>
                ctx      == IF cached THEN ctxState
                            ELSE IF built THEN "suspended"
                            ELSE "none"
            IN  /\ contexts' = IF built THEN contexts + 1 ELSE contexts
                /\ elCaptured' = (elCaptured \/ captured)
                /\ routed' = (routed \/ captured)
                /\ elAnalyser' = IF captured THEN analyser ELSE elAnalyser
                /\ IF analyser # <<>>
                   THEN /\ analyserRef' = analyser
                        /\ dataArrayRef' =
                              <<Uint8Array(FrequencyBinCount(analyser[1]))>>
                   ELSE UNCHANGED <<analyserRef, dataArrayRef>>
                /\ ctxState' = IF ~paused /\ ctx = "suspended"
                               THEN "running" ELSE ctx
                /\ playListeners' = playListeners + 1
                /\ UNCHANGED paused
    /\ UNCHANGED <<clockVars, pc, poolVars, bars, uTime, rigVars, commsVars>>

\* an effect that does not look for a tap cached on the element
SpectrumEffectUncached(elPresent, failAt) ==
    /\ pc = "idle"
    /\ ~mounted
    /\ mounted' = TRUE
    /\ IF ~elPresent
       THEN UNCHANGED <<audioVars, analyserRef, dataArrayRef>>
       ELSE LET built    == failAt # "context" /\ contexts < MaxContexts
                captured == built /\ ~elCaptured /\ failAt # "source"
                analyser == IF captured THEN <<CreateAnalyser>> ELSE <<>>
                ctx      == IF built THEN "suspended" ELSE "none"
            IN  /\ contexts' = IF built THEN contexts + 1 ELSE contexts
                /\ elCaptured' = (elCaptured \/ captured)
                /\ routed' = (routed \/ captured)
                /\ elAnalyser' = IF captured THEN analyser ELSE elAnalyser
                /\ IF analyser # <<>>
                   THEN /\ analyserRef' = analyser
                        /\ dataArrayRef' =
                              <<Uint8Array(FrequencyBinCount(analyser[1]))>>
                   ELSE UNCHANGED <<analyserRef, dataArrayRef>>
                /\ ctxState' = IF ~paused /\ ctx = "suspended"
                               THEN "running" ELSE ctx
                /\ playListeners' = playListeners + 1
                /\ UNCHANGED paused
    /\ UNCHANGED <<clockVars, pc, poolVars, bars, uTime, rigVars, commsVars>>

\* an effect that taps the element and does not connect the analyser back to
\* ctx.destination
SpectrumEffectUnrouted(elPresent, failAt) ==
    /\ pc = "idle"
    /\ ~mounted
    /\ mounted' = TRUE
    /\ IF ~elPresent
       THEN UNCHANGED <<audioVars, analyserRef, dataArrayRef>>
       ELSE LET cached   == elAnalyser # <<>>
                built    == ~cached /\ failAt # "context"
                                    /\ contexts < MaxContexts
                captured == built /\ ~elCaptured /\ failAt # "source"
                analyser == IF cached THEN elAnalyser
                            ELSE IF captured THEN <<CreateAnalyser>>
                            ELSE <<>>
                ctx      == IF cached THEN ctxState
                            ELSE IF built THEN "suspended"
                            ELSE "none"
            IN  /\ contexts' = IF built THEN contexts + 1 ELSE contexts
                /\ elCaptured' = (elCaptured \/ captured)
                /\ routed' = routed
                /\ elAnalyser' = IF captured THEN analyser ELSE elAnalyser
                /\ IF analyser # <<>>
                   THEN /\ analyserRef' = analyser
                        /\ dataArrayRef' =
                              <<Uint8Array(FrequencyBinCount(analyser[1]))>>
                   ELSE UNCHANGED <<analyserRef, dataArrayRef>>
                /\ ctxState' = IF ~paused /\ ctx = "suspended"
                               THEN "running" ELSE ctx
                /\ playListeners' = playListeners + 1
                /\ UNCHANGED paused
    /\ UNCHANGED <<clockVars, pc, poolVars, bars, uTime, rigVars, commsVars>>

\* Spectrum useEffect.  elPresent: audioRef.current is set.  failAt: the call
\* of the graph construction that throws, if any: the AudioContext constructor
\* (unsupported platform, or too many contexts) or createMediaElementSource
\* (always when the element is already captured).  A context constructed
\* before playback was started begins suspended.
SpectrumEffect(elPresent, failAt) ==
    /\ pc = "idle"
    /\ ~mounted
    /\ mounted' = TRUE
    /\ IF ~elPresent
       THEN UNCHANGED <<audioVars, analyserRef, dataArrayRef>>
       ELSE LET cached   == elAnalyser # <<>>
                \* the try block runs when nothing is cached
                built    == ~cached /\ failAt # "context"
                                    /\ contexts < MaxContexts
                captured == built /\ ~elCaptured /\ failAt # "source"
                analyser == IF cached THEN elAnalyser
                            ELSE IF captured THEN <<CreateAnalyser>>
                            ELSE <<>>
                ctx      == IF cached THEN ctxState
                            ELSE IF built THEN "suspended"
                            ELSE "none"
            IN  /\ contexts' = IF built THEN contexts + 1 ELSE contexts
                /\ elCaptured' = (elCaptured \/ captured)
                /\ routed' = (routed \/ captured)
                /\ elAnalyser' = IF captured THEN analyser ELSE elAnalyser
                /\ IF analyser # <<>>
                   THEN /\ analyserRef' = analyser
                        /\ dataArrayRef' =
                              <<Uint8Array(FrequencyBinCount(analyser[1]))>>
                   ELSE UNCHANGED <<analyserRef, dataArrayRef>>
                \* if (!audioEl.paused) handlePlay()
                /\ ctxState' = IF ~paused /\ ctx = "suspended"
                               THEN "running" ELSE ctx
                /\ playListeners' = playListeners + 1
                /\ UNCHANGED paused
    /\ UNCHANGED <<clockVars, pc, poolVars, bars, uTime, rigVars, commsVars>>

\* a cleanup whose removeEventListener names another function than the one
\* that was added, and so removes nothing
SpectrumCleanupKeepsListener ==
    /\ pc = "idle"
    /\ mounted
    /\ mounted' = FALSE
    /\ analyserRef' = <<>>
    /\ dataArrayRef' = <<>>
    /\ bars' = [i \in 1..BarCount |-> UnwrittenBar]
    /\ UNCHANGED <<clockVars, pc, poolVars, audioVars, uTime, rigVars, commsVars>>

\* The cleanup of the effect and the unmount of the component: the listener is
\* removed (none was added when the element was absent) and the instance's
\* refs and mesh go with the instance.
SpectrumCleanup ==
    /\ pc = "idle"
    /\ mounted
    /\ mounted' = FALSE
    /\ playListeners' = Max(0, playListeners - 1)
    /\ analyserRef' = <<>>
    /\ dataArrayRef' = <<>>
    /\ bars' = [i \in 1..BarCount |-> UnwrittenBar]
    /\ UNCHANGED <<clockVars, pc, poolVars, elAnalyser, elCaptured, paused,
                   ctxState, contexts, routed, uTime, rigVars, commsVars>>

\* a play event that reaches no handlePlay
AudioPlayNoResume ==
    /\ pc = "idle"
    /\ paused
    /\ paused' = FALSE
    /\ UNCHANGED <<clockVars, pc, poolVars, elAnalyser, elCaptured, ctxState,
                   playListeners, contexts, routed, spectrumVars, uTime, rigVars, commsVars>>

\* The audio element starts playing (App handleStart): its 'play' event runs
\* every registered handlePlay.
AudioPlay ==
    /\ pc = "idle"
    /\ paused
    /\ paused' = FALSE
    /\ ctxState' = IF playListeners > 0 /\ ctxState = "suspended"
                   THEN "running" ELSE ctxState
    /\ UNCHANGED <<clockVars, pc, poolVars, elAnalyser, elCaptured,
                   playListeners, contexts, routed, spectrumVars, uTime, rigVars, commsVars>>

\* audioEl.pause() (App handleExit)
AudioPause ==
    /\ pc = "idle"
    /\ ~paused
    /\ paused' = TRUE
    /\ UNCHANGED <<clockVars, pc, poolVars, elAnalyser, elCaptured, ctxState,
                   playListeners, contexts, routed, spectrumVars, uTime, rigVars, commsVars>>

\* The render loop starts a frame: the clock advances by the frame's delta and
\* the subscribed useFrame callbacks then run one after the other, each with
\* that delta.
Tick(dt, limit) ==
    /\ pc = "idle"
    /\ frames < limit
    /\ frames' = frames + 1
    /\ elapsedTime' = elapsedTime + dt
    /\ delta' = dt
    /\ pc' = "rig"
    /\ UNCHANGED <<poolVars, audioVars, spectrumVars, uTime, rigVars, commsVars>>

\* FlightCameraRig useFrame.  The second run gets the same elapsed time and
\* its own pointer position and frame delta.
RigUseFrame(pointer, pointer2, delta2) ==
    /\ pc = "rig"
    /\ pc' = "spectrum"
    /\ camera' = FlightCameraRig(camera, elapsedTime, pointer, delta)
    /\ replay' = FlightCameraRig(replay, elapsedTime, pointer2, delta2)
    /\ UNCHANGED <<clockVars, poolVars, audioVars, spectrumVars, uTime,
                   commsVars>>

\* Spectrum useFrame; pattern is what the audio pipeline last completed
SpectrumUseFrame(pattern) ==
    /\ pc = "spectrum"
    /\ pc' = "city"
    /\ IF ~mounted \/ analyserRef = <<>> \/ dataArrayRef = <<>>
       THEN UNCHANGED <<dataArrayRef, bars>>
       ELSE LET array == GetByteFrequencyData(analyserRef[1], pattern,
                                              dataArrayRef[1])
            IN  /\ dataArrayRef' = <<array>>
                /\ bars' = [i \in 1..BarCount |-> SpectrumBar(i - 1, array)]
    /\ UNCHANGED <<clockVars, poolVars, audioVars, mounted, analyserRef,
                   uTime, rigVars, commsVars>>

CityUseFrame ==
    /\ pc = "city"
    /\ LET city == CityFrame(buildings, delta, rng)
       IN  /\ buildings' = city.meshes
           /\ rng' = city.rng
    /\ pc' = "terrain"
    /\ UNCHANGED <<clockVars, lines, audioVars, spectrumVars, uTime, rigVars, commsVars>>

\* Terrain useFrame: materialRef.current.uTime = state.clock.elapsedTime
TerrainUseFrame ==
    /\ pc = "terrain"
    /\ pc' = "lines"
    /\ uTime' = elapsedTime
    /\ UNCHANGED <<clockVars, poolVars, audioVars, spectrumVars, rigVars, commsVars>>

SpeedLinesUseFrame ==
    /\ pc = "lines"
    /\ LET sl == LinesFrame(lines, delta, rng)
       IN  /\ lines' = sl.meshes
           /\ rng' = sl.rng
    /\ pc' = "idle"
    /\ UNCHANGED <<clockVars, buildings, audioVars, spectrumVars, uTime,
                   rigVars, commsVars>>

\* the whole program: the render loop and the life cycle of the audio tap
Next ==
    \/ \E elPresent \in BOOLEAN,
          failAt \in {"none", "context", "source"} :
            SpectrumEffect(elPresent, failAt)
    \/ SpectrumCleanup
    \/ AudioPlay
    \/ AudioPause
    \/ \E dt \in Deltas : Tick(dt, MaxTapFrames)
    \/ \E pointer \in Pointers, pointer2 \in Pointers, delta2 \in Deltas :
            RigUseFrame(pointer, pointer2, delta2)
    \/ \E pattern \in Patterns : SpectrumUseFrame(pattern)
    \/ CityUseFrame
    \/ TerrainUseFrame
    \/ SpeedLinesUseFrame

Spec == Init /\ [][Next]_vars

\* the render loop alone, over more frames: no audio element is ever tapped
LoopNext ==
    \/ \E dt \in Deltas : Tick(dt, MaxFrames)
    \/ \E pointer \in Pointers, pointer2 \in Pointers, delta2 \in Deltas :
            RigUseFrame(pointer, pointer2, delta2)
    \/ \E pattern \in Patterns : SpectrumUseFrame(pattern)
    \/ CityUseFrame
    \/ TerrainUseFrame
    \/ SpeedLinesUseFrame

LoopSpec == Init /\ [][LoopNext]_vars

\* frame deltas of a render loop that keeps running: a slow frame and a frame
\* after a stall, both well above zero (the delta reaches the callbacks as
\* the loop measured it)
TravelDeltas == {2000, 6000}

\* The render loop as the two pools see it, running forever: a frame hands
\* its delta to the callbacks of City, Terrain and SpeedLines.  The clock,
\* which none of the pool callbacks reads, is left where it is, so that the
\* run has no last frame.
TravelTick(dt) ==
    /\ pc = "idle"
    /\ delta' = dt
    /\ pc' = "city"
    /\ UNCHANGED <<elapsedTime, frames, poolVars, audioVars, spectrumVars,
                   uTime, rigVars, commsVars>>

TravelNext ==
    \/ \E dt \in TravelDeltas : TravelTick(dt)
    \/ CityUseFrame
    \/ TerrainUseFrame
    \/ SpeedLinesUseFrame

\* requestAnimationFrame keeps scheduling frames, and a frame that started
\* runs all its callbacks
TravelSpec == Init /\ [][TravelNext]_vars /\ WF_vars(TravelNext)

----------------------------------------------------------------------------
(* App and CommsSystem: title screen, soundtrack and voice link.  A handler
   is one action: its state updates, the render they cause and the effects
   of that render.  The audio element is rendered by App whether the HUD is
   mounted or not, so audioRef.current is never null. *)

tapVars == <<elAnalyser, elCaptured, playListeners, contexts, routed>>

sceneVars == <<clockVars, pc, poolVars, spectrumVars, uTime, rigVars>>

\* audio.play(): a paused element starts and its 'play' event runs every
\* registered handlePlay
CtxAfterPlay ==
    IF paused /\ playListeners > 0 /\ ctxState = "suspended"
    THEN "running" ELSE ctxState

\* handleSendMessage: the state it leaves
HandleSendMessage(h, text) ==
    IF h.isProcessing
    THEN h
    ELSE [h EXCEPT !.messages = Append(@, [role |-> "user", text |-> text]),
                   !.transcription = "",
                   !.isProcessing = TRUE]

\* recognition.onend: the state it leaves
RecognitionEnded(h) ==
    LET ended == [h EXCEPT !.isListening = FALSE]
    IN  IF NonBlank(h.transcription) /\ h.isAiEnabled
        THEN HandleSendMessage(ended, h.transcription)
        ELSE ended

\* the number of requests recognition.onend issues
RequestsIssued(h) ==
    IF NonBlank(h.transcription) /\ h.isAiEnabled /\ ~h.isProcessing
    THEN 1 ELSE 0

\* App handleStart; CommsSystem mounts with its initial state, its ducking
\* effect starts an interval and its recognition is created
HandleStart ==
    /\ pc = "idle"
    /\ ~isEntered
    /\ entries < MaxEntries
    /\ entries' = entries + 1
    /\ paused' = FALSE
    /\ ctxState' = CtxAfterPlay
    /\ isEntered' = TRUE
    /\ hud' = InitialHud
    /\ fading' = TRUE
    /\ recognition' = "inactive"
    /\ UNCHANGED <<sceneVars, tapVars, currentTime, volume, playTimers,
                   strayTimers, pending, orphaned>>

\* App handleExit; CommsSystem unmounts: the interval is cleared and the
\* recognition aborted, whose onend still runs with the refs of the
\* unmounted HUD.  Its timers and its requests are left to run.
HandleExit ==
    /\ pc = "idle"
    /\ isEntered
    /\ isEntered' = FALSE
    /\ paused' = TRUE
    /\ currentTime' = 0
    /\ volume' = VolumeFull
    /\ fading' = FALSE
    /\ recognition' = "inactive"
    /\ orphaned' = orphaned + pending
                   + (IF recognition # "inactive" THEN RequestsIssued(hud)
                      ELSE 0)
    /\ pending' = 0
    /\ strayTimers' = strayTimers + playTimers
    /\ playTimers' = 0
    /\ hud' = InitialHud
    /\ UNCHANGED <<sceneVars, tapVars, ctxState, entries>>

\* handleMusicToggle
HandleMusicToggle ==
    /\ pc = "idle"
    /\ isEntered
    /\ IF hud.isMusicPlaying
       THEN paused' = TRUE /\ UNCHANGED ctxState
       ELSE paused' = FALSE /\ ctxState' = CtxAfterPlay
    /\ hud' = [hud EXCEPT !.isMusicPlaying = ~@]
    /\ UNCHANGED <<sceneVars, tapVars, isEntered, currentTime, volume,
                   playTimers, strayTimers, recognition, fading, pending,
                   orphaned, entries>>

\* handleFileChange with a file chosen: the new src makes the element load,
\* which pauses it at position 0, and a timer is set to play it
HandleFileChange ==
    /\ pc = "idle"
    /\ isEntered
    /\ playTimers + strayTimers < MaxTimers
    /\ paused' = TRUE
    /\ currentTime' = 0
    /\ playTimers' = playTimers + 1
    /\ UNCHANGED <<sceneVars, tapVars, ctxState, isEntered, hud, volume,
                   strayTimers, recognition, fading, pending, orphaned,
                   entries>>

\* the callback of a timer of handleFileChange, 200 ms after the pick;
\* stray is set for a timer whose HUD is unmounted by now, whose
\* setIsMusicPlaying does nothing
DelayedPlay(stray) ==
    /\ pc = "idle"
    /\ IF stray
       THEN /\ strayTimers > 0
            /\ strayTimers' = strayTimers - 1
            /\ UNCHANGED <<playTimers, hud>>
       ELSE /\ playTimers > 0
            /\ playTimers' = playTimers - 1
            /\ hud' = [hud EXCEPT !.isMusicPlaying = TRUE]
            /\ UNCHANGED strayTimers
    /\ paused' = FALSE
    /\ ctxState' = CtxAfterPlay
    /\ UNCHANGED <<sceneVars, tapVars, isEntered, currentTime, volume,
                   recognition, fading, pending, orphaned, entries>>

\* playback moves on; the element loops
AudioProgress ==
    /\ pc = "idle"
    /\ ~paused
    /\ currentTime' = (currentTime + 1) % TrackLength
    /\ UNCHANGED <<sceneVars, audioVars, isEntered, hud, volume, playTimers,
                   strayTimers, recognition, fading, pending, orphaned,
                   entries>>

\* the fadeAudio interval of the ducking effect, every 50 ms
FadeAudio ==
    /\ pc = "idle"
    /\ isEntered
    /\ fading
    /\ LET targetVolume == IF hud.isListening THEN VolumeDucked
                           ELSE VolumeFull
           distance == IF volume >= targetVolume THEN volume - targetVolume
                       ELSE targetVolume - volume
       IN  IF distance < FadeSnap
           THEN volume' = targetVolume /\ fading' = FALSE
           ELSE /\ volume' = volume + (targetVolume - volume) \div 10
                /\ UNCHANGED fading
    /\ UNCHANGED <<sceneVars, audioVars, isEntered, hud, currentTime,
                   playTimers, strayTimers, recognition, pending, orphaned,
                   entries>>

\* the AI link button of the settings panel
ToggleAi ==
    /\ pc = "idle"
    /\ isEntered
    /\ hud' = [hud EXCEPT !.isAiEnabled = ~@]
    /\ UNCHANGED <<sceneVars, audioVars, isEntered, currentTime, volume,
                   playTimers, strayTimers, recognition, fading, pending,
                   orphaned, entries>>

\* toggleListening: stop() while listening, start() otherwise (which throws
\* when the session was started already)
ToggleListening ==
    /\ pc = "idle"
    /\ isEntered
    /\ hud.isAiEnabled
    /\ IF hud.isListening
       THEN /\ recognition' = "stopping"
            /\ UNCHANGED hud
       ELSE /\ hud' = [hud EXCEPT !.transcription = ""]
            /\ recognition' = IF recognition = "inactive" THEN "starting"
                              ELSE recognition
    /\ UNCHANGED <<sceneVars, audioVars, isEntered, currentTime, volume,
                   playTimers, strayTimers, fading, pending, orphaned,
                   entries>>

\* recognition.onstart; isListening changed, so the ducking effect restarts
\* its interval
RecognitionOnStart ==
    /\ pc = "idle"
    /\ recognition = "starting"
    /\ recognition' = "listening"
    /\ hud' = [hud EXCEPT !.isListening = TRUE]
    /\ fading' = TRUE
    /\ UNCHANGED <<sceneVars, audioVars, isEntered, currentTime, volume,
                   playTimers, strayTimers, pending, orphaned, entries>>

\* recognition.onresult
RecognitionOnResult(transcript) ==
    /\ pc = "idle"
    /\ recognition = "listening"
    /\ hud' = [hud EXCEPT !.transcription = transcript]
    /\ UNCHANGED <<sceneVars, audioVars, isEntered, currentTime, volume,
                   playTimers, strayTimers, recognition, fading, pending,
                   orphaned, entries>>

\* recognition.onend, with the handleSendMessage it may call
RecognitionOnEnd ==
    /\ pc = "idle"
    /\ recognition # "inactive"
    /\ RequestsIssued(hud) > 0 => Len(hud.messages) + 2 <= MaxMessages
    /\ recognition' = "inactive"
    /\ hud' = RecognitionEnded(hud)
    /\ pending' = pending + RequestsIssued(hud)
    /\ fading' = (fading \/ hud.isListening)
    /\ UNCHANGED <<sceneVars, audioVars, isEntered, currentTime, volume,
                   playTimers, strayTimers, orphaned, entries>>

\* the rest of handleSendMessage, once ai.chat.completions.create settled
Settle(outcome) ==
    /\ pc = "idle"
    /\ pending > 0
    /\ pending' = pending - 1
    /\ LET aiText == CASE outcome = "reply" -> "roger"
                       [] outcome = "empty" -> "...Signal Lost..."
                       [] OTHER -> "ERR: ENCRYPTION_FAIL"
       IN  hud' = [hud EXCEPT
                     !.messages = Append(@, [role |-> "assistant",
                                             text |-> aiText]),
                     !.isProcessing = FALSE]
    /\ UNCHANGED <<sceneVars, audioVars, isEntered, currentTime, volume,
                   playTimers, strayTimers, recognition, fading, orphaned,
                   entries>>

\* the same for a request whose HUD is unmounted by now: its state updates
\* do nothing
SettleOrphaned ==
    /\ pc = "idle"
    /\ orphaned > 0
    /\ orphaned' = orphaned - 1
    /\ UNCHANGED <<sceneVars, audioVars, isEntered, hud, currentTime, volume,
                   playTimers, strayTimers, recognition, fading, pending,
                   entries>>

\* the soundtrack: entering and leaving the world, the music controls of the
\* settings panel, the ducking while the HUD listens (to a user who says
\* nothing the recogniser makes out)
TitleNext ==
    \/ HandleStart
    \/ HandleExit
    \/ HandleMusicToggle
    \/ HandleFileChange
    \/ \E stray \in BOOLEAN : DelayedPlay(stray)
    \/ AudioProgress
    \/ FadeAudio
    \/ ToggleAi
    \/ ToggleListening
    \/ RecognitionOnStart
    \/ RecognitionOnEnd

TitleSpec == Init /\ [][TitleNext]_vars

\* the voice link: entering and leaving the world, speech recognition and
\* the chat-completion requests
CommsNext ==
    \/ HandleStart
    \/ HandleExit
    \/ ToggleAi
    \/ ToggleListening
    \/ RecognitionOnStart
    \/ \E transcript \in Transcripts : RecognitionOnResult(transcript)
    \/ RecognitionOnEnd
    \/ \E outcome \in Outcomes : Settle(outcome)
    \/ SettleOrphaned

\* a request that was issued settles: the client gets a response or throws
CommsSpec ==
    /\ Init
    /\ [][CommsNext]_vars
    /\ WF_vars(\E outcome \in Outcomes : Settle(outcome))

----------------------------------------------------------------------------
(* Object pool and recycler *)

BuildingIds == 1..Len(buildings)
LineIds == 1..Len(lines)

\* C1: every prop's travel-axis coordinate lies within [respawnZ,
\* despawnThreshold] of its class in every state from construction onward:
\* buildings in [-150, 20], streaks in [-100, 10].
C1_PropsWithinBounds ==
    /\ \A i \in BuildingIds :
           buildings[i].z >= -150000 /\ buildings[i].z <= 20000
    /\ \A i \in LineIds :
           lines[i].z >= -100000 /\ lines[i].z <= 10000

\* z of a prop after the advance step of the callback about to run
BuildingZAdvanced(i) == buildings[i].z + 30 * delta
LineZAdvanced(i) == lines[i].z + (lines[i].speed * 80 * delta) \div 1000

\* C2: in a frame where a prop's z after advancing is <= its despawn
\* threshold (20 for buildings, 10 for streaks, equality included) the respawn
\* step leaves x, y and z as the advance left them, and the callback draws
\* random values only for the props that did cross: two per crossing prop.
C2_RespawnNoOpBelowThreshold ==
    [][ /\ pc = "city" =>
              /\ \A i \in BuildingIds :
                    BuildingZAdvanced(i) <= 20000 =>
                        /\ buildings'[i].x = buildings[i].x
                        /\ buildings'[i].y = buildings[i].y
                        /\ buildings'[i].z = BuildingZAdvanced(i)
              /\ rng' = RandSkip(rng, 2 * Cardinality(
                              {i \in BuildingIds : BuildingZAdvanced(i) > 20000}))
        /\ pc = "lines" =>
              /\ \A i \in LineIds :
                    LineZAdvanced(i) <= 10000 =>
                        /\ lines'[i].x = lines[i].x
                        /\ lines'[i].y = lines[i].y
                        /\ lines'[i].z = LineZAdvanced(i)
              /\ rng' = RandSkip(rng, 2 * Cardinality(
                              {i \in LineIds : LineZAdvanced(i) > 10000}))
      ]_vars

\* a frame has left a building exactly on its threshold, not respawned, while
\* a streak was respawned in the same frame
C2_Witness ==
    /\ pc = "idle"
    /\ frames > 0
    /\ \E i \in BuildingIds : buildings[i].z = 20000
    /\ \E i \in LineIds : lines[i].z = -100000

\* C3: a prop whose z exceeds the despawn threshold after the advance step of
\* a frame has z exactly respawnZ (-150 buildings, -100 streaks) at the end of
\* that frame, however far past the threshold it moved.
C3_RespawnResetsToRespawnZ ==
    [][ /\ pc = "city" =>
              \A i \in BuildingIds :
                  BuildingZAdvanced(i) > 20000 => buildings'[i].z = -150000
        /\ pc = "lines" =>
              \A i \in LineIds :
                  LineZAdvanced(i) > 10000 => lines'[i].z = -100000
      ]_vars

\* a frame after a long pause carried every prop far past its threshold, and
\* all of them are back at respawnZ
C3_Witness ==
    /\ pc = "idle"
    /\ frames = 1
    /\ delta = 6000
    /\ \A i \in BuildingIds : buildings[i].z = -150000
    /\ \A i \in LineIds : lines[i].z = -100000

\* C4: the pool size is constant: 120 buildings and 30 streaks in every state.
C4_PoolSizeConstant ==
    /\ Len(buildings) = 120
    /\ Len(lines) = 30

\* props have been respawned in each of three frames and the pools are whole
C4_Witness ==
    /\ pc = "idle"
    /\ frames = 3
    /\ elapsedTime = 18000
    /\ Len(buildings) = 120
    /\ Len(lines) = 30

----------------------------------------------------------------------------
(* Radial spectrum mapper *)

BarIds == 1..Len(bars)

\* C5: for every bar and every energy value in 0..255 the radial scale
\* written for the bar, max(0, (m/100 - 1.2) * 40), is non-negative.
C5_BarScaleNonNegative ==
    \A i \in BarIds :
        bars[i].written =>
            /\ bars[i].data \in 0..255
            /\ bars[i].scaleY >= 0

\* a frame was mapped from a ramp of energies: the bar of the minimum energy
\* has scale 0 and the bar of the maximum energy has scale 54
C5_Witness ==
    /\ bars[1].written /\ bars[1].data = 0 /\ bars[1].scaleY = 0
    /\ bars[8].written /\ bars[8].data = 119 /\ bars[8].scaleY = 0
    /\ bars[16].written /\ bars[16].data = 255 /\ bars[16].scaleY = 54000

\* the audio frame the bars were last written from is all zeros
SilentFrameMapped ==
    /\ dataArrayRef # <<>>
    /\ \A i \in 1..Len(dataArrayRef[1]) : dataArrayRef[1][i] = 0
    /\ \A i \in BarIds : bars[i].written

\* C6: when the audio frame is all zeros the mapper writes all 16 bars with
\* the minimum radial scale (0) and with exactly the first accent colour, cyan
\* #00ffff.
C6_SilentFrameIsCyan ==
    SilentFrameMapped =>
        /\ Len(bars) = 16
        /\ \A i \in BarIds :
              /\ bars[i].scaleY = 0
              /\ bars[i].color = [r |-> 0, g |-> 1000, b |-> 1000]

----------------------------------------------------------------------------
(* Horizon fade *)

\* the opacity of a fragment at world z, as the claim states it
FadeAt(z) == BuildingAlpha(z)

\* world z of the back face, the centre and the front face of building i
BackZ(i) == buildings[i].z - buildings[i].depth \div 2
FrontZ(i) == buildings[i].z + buildings[i].depth \div 2

----------------------------------------------------------------------------
(* Terrain *)

\* uv.x of the vertices of the 64-segment grid, and every thousandth of uv.x
\* around the two road/mountain boundaries (0.3 and 0.7)
TerrainUs ==
    {(i * 1000) \div 64 : i \in 0..64} \cup (290..310) \cup (690..710)

\* uv.y of some rows of the grid
TerrainVs == {0, 250, 578, 1000}

Abs(x) == IF x >= 0 THEN x ELSE -x

\* C9: terrain elevation is exactly 0 wherever |u - 0.5| * 2 <= 0.4, for every
\* v and t, and it is continuous across the boundary: outside the band the
\* elevation is bounded by 34 times the normalized distance beyond the band
\* (30 for the power curve, 4 for the waves), so it tends to 0 at the boundary.
C9_TerrainFlatRoadContinuous ==
    \A u \in TerrainUs, v \in TerrainVs :
        LET dist == Abs(u - 500) * 2
            e    == Elevation(u, v, uTime)
        IN  /\ dist <= 400 => e = 0
            /\ dist > 400 => Abs(e) * 600 <= 34000 * (dist - 400) + 600

\* the terrain was displaced at a positive time: flat on the boundary, and
\* just beyond it a wave of a few thousandths, not zero
C9_Witness ==
    /\ uTime > 0
    /\ Elevation(700, 250, uTime) = 0
    /\ Elevation(702, 250, uTime) # 0
    /\ Abs(Elevation(702, 250, uTime)) <= 20
    /\ Elevation(1000, 250, uTime) > 20000

----------------------------------------------------------------------------
(* Flight trajectory synthesizer *)

\* C10: two independent runs of the rig started from the same initial pose and
\* fed the same elapsed times have identical camera position and roll after
\* every frame, whatever pointer position and frame delta each run sees; and
\* the rig draws no random value.
C10_RigDeterministic ==
    /\ [](camera = replay)
    /\ [][pc = "rig" => rng' = rng]_vars

\* two frames have run and the pose has left its initial value
C10_Witness ==
    /\ frames = 2
    /\ pc = "idle"
    /\ elapsedTime > 0
    /\ camera = replay
    /\ camera.x # InitialCamera.x
    /\ camera.y # InitialCamera.y
    /\ camera.roll # 0

\* the first frame has run its rig callback at elapsed time 0
FirstFrameAtZero == frames = 1 /\ elapsedTime = 0 /\ pc # "rig"

\* C11 as stated: after a frame evaluated at elapsed time 0 with delta 0 from
\* the configured initial position (0, 3, 10), the camera position is still
\* (0, 3, 10) and the roll is 0.
C11_PoseUnchangedAtTimeZero ==
    (FirstFrameAtZero /\ delta = 0) =>
        /\ camera.x = 0 /\ camera.y = 3000 /\ camera.z = 10000
        /\ camera.roll = 0

\* C11 as amended: after a frame evaluated at elapsed time 0 from the initial
\* position (0, 3, 10) the camera has moved one tenth of the way to the
\* target of time 0, (2, 7.03): its position is (0.2, 3.403, 10), and its roll
\* is one tenth of the way from the look-at roll to the target roll -1.08,
\* about -0.109.
C11_PoseAfterFrameAtTimeZero ==
    FirstFrameAtZero =>
        /\ camera.x = 200 /\ camera.y = 3403 /\ camera.z = 10000
        /\ camera.roll >= -110 /\ camera.roll <= -108

\* the frame at elapsed time 0 with delta 0 has run to its end
C11_Witness ==
    /\ FirstFrameAtZero
    /\ delta = 0
    /\ pc = "idle"
    /\ camera.x = 200
    /\ camera.roll < 0

\* the time derivative of x(t) = 3 sin(0.25 t) + 3 sin(0.65 t) + 2 cos(0.1 t)
AnalyticDx(t) ==
    (Cos((t * 25) \div 100) * 750 + Cos((t * 65) \div 100) * 1950
     - Sin(t \div 10) * 200) \div 1000

\* C21: the banking input dx of every frame is the analytic time derivative
\* of the target lateral offset of that frame, 0.75 cos(0.25 t)
\* + 1.95 cos(0.65 t) - 0.2 sin(0.1 t); at t = 0 it is 2.7.
C21_DxIsDerivativeOfTarget ==
    (frames > 0 /\ pc # "rig") =>
        /\ RigDx(elapsedTime) - AnalyticDx(elapsedTime) <= 5
        /\ AnalyticDx(elapsedTime) - RigDx(elapsedTime) <= 5
        /\ elapsedTime = 0 => RigDx(elapsedTime) = 2700

\* the targets of the frame at the current elapsed time, jitter included
FrameTargetX == RigTargetX(elapsedTime) + JitterX(elapsedTime)
FrameTargetY == RigTargetY(elapsedTime) + JitterY(elapsedTime)

\* b lies between a and c
Between(a, b, c) == (a <= b /\ b <= c) \/ (c <= b /\ b <= a)

\* after the step from previous to next the error to target is 0.9 times what
\* it was, up to one thousandth of rounding
ErrorScaledByNineTenths(previous, next, target) ==
    /\ 10 * Abs(target - next) <= 9 * Abs(target - previous) + 10
    /\ 10 * Abs(target - next) >= 9 * Abs(target - previous) - 10

RECURSIVE Power(_, _)
Power(b, n) == IF n = 0 THEN 1 ELSE b * Power(b, n - 1)

\* C22: in every frame, whatever its delta, camera x and y move from their
\* previous value toward the frame's target (x + jitterX, y + jitterY) by the
\* fraction 0.1: the new coordinate lies between the previous one and the
\* target, the remaining error is 0.9 times the previous error, and with a
\* constant target (n frames at elapsed time 0, target x = 2) the error
\* after n frames is 0.9^n times the initial error.
C22_PositionSmoothedByTenth ==
    /\ [][pc = "rig" =>
            /\ Between(camera.x, camera'.x, FrameTargetX)
            /\ Between(camera.y, camera'.y, FrameTargetY)
            /\ ErrorScaledByNineTenths(camera.x, camera'.x, FrameTargetX)
            /\ ErrorScaledByNineTenths(camera.y, camera'.y, FrameTargetY)]_vars
    /\ []((elapsedTime = 0 /\ pc # "rig") =>
            Abs((2000 - camera.x) * Power(10, frames) - 2000 * Power(9, frames))
                <= frames * Power(10, frames))

\* three frames have run at elapsed time 0 and left 0.9^3 of the initial
\* error in x, and another run has taken a long frame
C22_Witness ==
    /\ frames = 3
    /\ pc = "idle"
    /\ elapsedTime = 0
    /\ camera.x = 542
    /\ 2000 - camera.x = 1458

\* the roll the frame lerps toward: -0.2 * dx + jitterRot
FrameTargetRoll ==
    (-RigDx(elapsedTime) * 2) \div 10 + JitterRot(elapsedTime)

\* C23: the roll at the end of a frame is the roll at the end of the previous
\* frame moved by the fraction 0.1 toward -0.2 * dx + jitterRot: the
\* interpolation starts from the roll carried over from the previous frame,
\* not from the roll the look-at step leaves.
C23_RollSmoothedAcrossFrames ==
    [][pc = "rig" =>
          Abs(camera'.roll - Lerp(camera.roll, FrameTargetRoll, 100)) <= 2]_vars

\* the extremes of the sum-of-sines target over a sample of elapsed times
RigSampleTimes == {293 * k : k \in 0..150}

\* C26: from (0, 3, 10), after any frames at any elapsed times, camera x is
\* within [-8.03, 8.03] and camera y within [1.97, 10.03], the range of the
\* target plus jitter, and the rig never changes camera z, which stays 10.
C26_CameraWithinEnvelope ==
    /\ camera.x >= -8030 /\ camera.x <= 8030
    /\ camera.y >= 1970 /\ camera.y <= 10030
    /\ camera.z = 10000
    /\ \A t \in RigSampleTimes \cup {elapsedTime} :
          /\ Abs(RigTargetX(t) + JitterX(t)) <= 8030
          /\ RigTargetY(t) + JitterY(t) >= 1970
          /\ RigTargetY(t) + JitterY(t) <= 10030

\* three frames have moved the camera sideways and up, z untouched
C26_Witness ==
    /\ frames = 3
    /\ pc = "idle"
    /\ elapsedTime >= 6000
    /\ camera.x # 0
    /\ camera.y > 3000
    /\ camera.z = 10000

----------------------------------------------------------------------------
(* Audio tap *)

\* Spectrum mounts and attaches no tap: there is no audio element (no listener
\* is added), or the construction threw (nothing is cached on the element)
MountsWithoutTap ==
    /\ ~mounted
    /\ mounted'
    /\ (playListeners' = playListeners \/ elAnalyser' = <<>>)

\* C12: if no audio element is attached or the construction of the analysis
\* graph throws, the effect completes (the exception is caught) and records no
\* analyser; every later frame callback returns without reading audio data
\* and the render loop goes on to the next callback; the bars stay as they
\* were created, none is ever written.
C12_NoTapDegradesToIdle ==
    /\ [][MountsWithoutTap => analyserRef' = <<>> /\ dataArrayRef' = <<>>]_vars
    /\ [][(pc = "spectrum" /\ analyserRef = <<>>) =>
              (pc' = "city" /\ bars' = bars /\ dataArrayRef' = dataArrayRef)]_vars
    /\ [](analyserRef = <<>> => \A i \in BarIds : bars[i] = UnwrittenBar)

\* createMediaElementSource threw in a mounted Spectrum (a context was built,
\* nothing is cached), the element plays, and a frame has run to its end
C12_Witness ==
    /\ mounted
    /\ playListeners = 1
    /\ contexts = 1
    /\ elAnalyser = <<>>
    /\ analyserRef = <<>>
    /\ ~paused
    /\ frames = 1
    /\ pc = "idle"
    /\ \A i \in BarIds : ~bars[i].written

\* C13: while the element plays and a mounted Spectrum holds a context, the
\* context is not suspended: a play event delivered to a mounted Spectrum
\* resumes a suspended context, and so does attaching the tap to an element
\* that already plays; a context is resumed by these two steps only, never by
\* a callback of the render loop.
C13_ResumeOnPlaybackStart ==
    /\ []((playListeners > 0 /\ ~paused) => ctxState # "suspended")
    /\ [][(ctxState = "suspended" /\ ctxState' = "running") =>
              \/ paused /\ ~paused' /\ playListeners > 0
              \/ ~mounted /\ mounted' /\ ~paused]_vars
    /\ [][pc # "idle" => ctxState' = ctxState]_vars

\* the tap was attached while the element was paused, the element then
\* started playing, and a frame has run: the context is running
C13_Witness ==
    /\ mounted
    /\ elAnalyser # <<>>
    /\ analyserRef = elAnalyser
    /\ ~paused
    /\ ctxState = "running"
    /\ frames = 1
    /\ pc = "idle"

\* C14 as stated: after Spectrum is torn down no audio context or analyser
\* made by it remains open and connected to the audio element, and none of
\* its playback listeners remains.
C14_TeardownReleasesGraph ==
    ~mounted =>
        /\ elAnalyser = <<>>
        /\ ~elCaptured
        /\ ctxState = "none"
        /\ playListeners = 0

\* C14 as amended: unmounting Spectrum removes its play listener and ends its
\* frame callback, so that nothing of the unmounted component runs (a play
\* event resumes no context, a frame writes no bar); the audio context, the
\* source node and the analyser cached on the audio element are left open and
\* connected, for the next mount to reuse.
C14_TeardownDetachesCallbacks ==
    /\ [](~mounted =>
            playListeners = 0 /\ analyserRef = <<>> /\ dataArrayRef = <<>>)
    /\ [][(mounted /\ ~mounted') =>
              /\ elAnalyser' = elAnalyser
              /\ elCaptured' = elCaptured
              /\ ctxState' = ctxState
              /\ contexts' = contexts]_vars
    /\ [][(~mounted /\ ~mounted') =>
              (ctxState' = ctxState /\ bars' = bars)]_vars

\* a tap was attached and Spectrum unmounted; the element then started to
\* play and a frame ran: the cached graph is still there, its context still
\* suspended
C14_Witness ==
    /\ ~mounted
    /\ elAnalyser # <<>>
    /\ elCaptured
    /\ contexts = 1
    /\ ctxState = "suspended"
    /\ playListeners = 0
    /\ ~paused
    /\ frames = 1
    /\ pc = "idle"

\* C19: the tap is initialised at most once per audio element and cached on
\* it.  A source node is created only when nothing is cached, and it is
\* cached in the same step; once a tap is cached, no mount or unmount changes
\* it, creates another source node or constructs another context; every mount
\* on the element then records the cached analyser; and a tap exists on the
\* element only as the cached one, also after failed initialisations.
C19_TapInitialisedOnce ==
    /\ [][elAnalyser # <<>> =>
              /\ elAnalyser' = elAnalyser
              /\ elCaptured' = elCaptured
              /\ contexts' = contexts]_vars
    /\ [][(~elCaptured /\ elCaptured') =>
              (elAnalyser = <<>> /\ elAnalyser' # <<>> /\ contexts' = contexts + 1)]_vars
    /\ []((mounted /\ playListeners > 0 /\ elAnalyser # <<>>) =>
              analyserRef = elAnalyser)
    /\ [](elCaptured <=> elAnalyser # <<>>)

\* a first initialisation failed after constructing a context, a second one
\* succeeded and its context was resumed, Spectrum was unmounted over a frame
\* and is mounted again on the cached tap
C19_Witness ==
    /\ mounted
    /\ contexts = 2
    /\ elAnalyser # <<>>
    /\ analyserRef = elAnalyser
    /\ ctxState = "running"
    /\ frames = 1
    /\ pc = "idle"
    /\ ~bars[1].written

\* C24: tapping the element never leaves playback cut off from the speakers:
\* in every state, also after a construction that threw part-way, if a
\* media-element source node has captured the element's output then the path
\* source -> analyser -> destination exists; and no step takes the path away.
C24_CapturedOutputReachesSpeakers ==
    /\ [](elCaptured => routed)
    /\ [][routed => routed']_vars

\* a construction threw after it had built a context, the next one tapped the
\* element, and the element plays through the graph over a frame
C24_Witness ==
    /\ elCaptured
    /\ routed
    /\ contexts = 2
    /\ mounted
    /\ ~paused
    /\ ctxState = "running"
    /\ bars[16].written
    /\ pc = "idle"

----------------------------------------------------------------------------
(* Frame delta *)

\* C15: the delta fed to the per-frame computations is clamped to a safe
\* maximum, so the displacement applied to a prop in one frame is bounded by
\* its speed times that maximum.  Whatever the maximum, it keeps a prop from
\* being carried over more than the whole range of its pool in one frame
\* (170 units for a building, 110 for a streak).
C15_DeltaClampedToSafeMaximum ==
    /\ pc = "city" =>
          \A i \in BuildingIds :
              BuildingZAdvanced(i) - buildings[i].z <= 20000 - (-150000)
    /\ pc = "lines" =>
          \A i \in LineIds :
              LineZAdvanced(i) - lines[i].z <= 10000 - (-100000)

----------------------------------------------------------------------------
(* Prop speeds *)

\* the streak was not respawned by the callback about to run
LineKept(i) == LineZAdvanced(i) <= 10000

----------------------------------------------------------------------------
(* Lateral placement *)

\* C17: at every time, initially and after any number of respawns, every
\* building has x = side * (roadWidth / 2 + r * 30 + 5) with side -1 or +1
\* and r in [0, 1): 10 <= |x| < 40, never inside the road half-width
\* |x| < 5; and every streak has x and y in the ranges of its construction,
\* x in [-30, 30) and y in [0, 20).
C17_LateralRedrawnOutsideRoad ==
    /\ \A i \in BuildingIds :
          /\ Abs(buildings[i].x) >= 10000
          /\ Abs(buildings[i].x) < 40000
          /\ \E side \in {-1, 1}, r \in 0..(RandMod - 1) :
                buildings[i].x = side * (5000 + (r * 30000) \div RandMod + 5000)
    /\ \A i \in LineIds :
          /\ lines[i].x >= -30000 /\ lines[i].x < 30000
          /\ lines[i].y >= 0 /\ lines[i].y < 20000

\* two frames have respawned buildings on both sides of the road, and streaks
C17_Witness ==
    /\ pc = "idle"
    /\ frames = 2
    /\ \E i \in BuildingIds, j \in BuildingIds :
          /\ buildings[i].z = -150000 /\ buildings[i].x >= 10000
          /\ buildings[j].z = -150000 /\ buildings[j].x <= -10000
    /\ \E i \in LineIds : lines[i].z = -100000

----------------------------------------------------------------------------
(* Pop-in *)

\* the opacity of the fragments of a mesh: at its back face, centre and front
\* face
FragmentZs(mesh) ==
    {mesh.z - mesh.depth \div 2, mesh.z, mesh.z + mesh.depth \div 2}

----------------------------------------------------------------------------
(* Frame effects of the recycler *)

\* C27: a frame in which a building does not respawn changes only that
\* building's z; a building respawn changes only its z and x and leaves its
\* y, width, height, depth and edge colour as drawn at construction; a streak
\* respawn changes its x, y and z and never its speed or length, and a streak
\* that does not respawn changes only its z.
C27_RecyclerFrameEffects ==
    [][ /\ pc = "city" =>
              \A i \in BuildingIds :
                  /\ buildings'[i].y = buildings[i].y
                  /\ buildings'[i].width = buildings[i].width
                  /\ buildings'[i].height = buildings[i].height
                  /\ buildings'[i].depth = buildings[i].depth
                  /\ buildings'[i].edgeColor = buildings[i].edgeColor
                  /\ BuildingZAdvanced(i) <= 20000 =>
                        buildings'[i].x = buildings[i].x
        /\ pc = "lines" =>
              \A i \in LineIds :
                  /\ lines'[i].speed = lines[i].speed
                  /\ lines'[i].length = lines[i].length
                  /\ LineZAdvanced(i) <= 10000 =>
                        (lines'[i].x = lines[i].x /\ lines'[i].y = lines[i].y)
        /\ pc \notin {"city", "lines"} =>
              (buildings' = buildings /\ lines' = lines)
      ]_vars

\* three frames have respawned buildings and streaks; respawned props are
\* back at respawnZ with the height and speed ranges of their construction
C27_Witness ==
    /\ pc = "idle"
    /\ frames = 3
    /\ \E i \in BuildingIds :
          /\ buildings[i].z = -150000
          /\ buildings[i].y = buildings[i].height \div 2 - 2000
    /\ \E i \in LineIds :
          /\ lines[i].z = -100000
          /\ lines[i].speed >= 500

----------------------------------------------------------------------------
(* Infinite travel *)

\* C28: while frames keep occurring with deltas bounded below by a positive
\* value, every building and every streak is respawned infinitely often (it
\* is found at its respawnZ right after its callback, again and again), and
\* between two respawns of a prop its z never decreases.
C28_InfiniteTravel ==
    /\ \A i \in 1..120 : []<>(pc = "terrain" /\ buildings[i].z = -150000)
    /\ \A i \in 1..30 : []<>(pc = "idle" /\ lines[i].z = -100000)
    /\ [][\A i \in BuildingIds :
              buildings'[i].z >= buildings[i].z \/ buildings'[i].z = -150000]_vars
    /\ [][\A i \in LineIds :
              lines'[i].z >= lines[i].z \/ lines'[i].z = -100000]_vars

\* every building has been respawned and has advanced since, and so has
\* every streak but those respawned by the last frame
C28_Witness ==
    /\ pc = "idle"
    /\ delta > 0
    /\ \A i \in BuildingIds : buildings[i].z = -150000 + BuildingSpeed * 2000
    /\ \E i \in LineIds : lines[i].z = -100000
    /\ \E i \in LineIds : lines[i].z > -100000

----------------------------------------------------------------------------
(* Title screen *)

\* C29: while the title screen is shown (isEntered is false) the audio
\* element is paused, whatever the interleaving of start, exit, music toggle,
\* file pick and the delayed play a file pick scheduled; and right after an
\* exit the element is paused at position 0 with volume 1.0.
C29_TitleScreenSilent ==
    /\ [](~isEntered => paused)
    /\ [][isEntered /\ ~isEntered'
            => paused' /\ currentTime' = 0 /\ volume' = VolumeFull]_vars

----------------------------------------------------------------------------
(* Voice link *)

\* chat-completion requests in flight
InFlight == pending + orphaned

\* recognition.onend runs in this step
RecognitionEnds == recognition # "inactive" /\ recognition' = "inactive"

\* C30: at most one chat-completion request is in flight at any time; a
\* request is issued only when speech recognition ends with a non-blank
\* transcript and the AI link enabled; a send attempted while a request is
\* in flight appends no message and issues no request; every request that
\* settles appends exactly one assistant message and resets isProcessing;
\* and isProcessing, once set, is reset eventually.
C30_OneRequestInFlight ==
    /\ [](InFlight <= 1)
    /\ [][InFlight' > InFlight
            => /\ RecognitionEnds
               /\ NonBlank(hud.transcription)
               /\ hud.isAiEnabled]_vars
    /\ [][RecognitionEnds /\ isEntered' /\ hud.isProcessing
            => hud'.messages = hud.messages /\ InFlight' = InFlight]_vars
    /\ [][InFlight' < InFlight
            => /\ Len(hud'.messages) = Len(hud.messages) + 1
               /\ hud'.messages[Len(hud'.messages)].role = "assistant"
               /\ ~hud'.isProcessing]_vars
    /\ [](hud.isProcessing => <>(~hud.isProcessing))

----------------------------------------------------------------------------
(* Independence of the props *)

\* the generator state at which the frame about to run reaches prop i: two
\* draws were made for every prop before it that crossed its threshold
BuildingDraws(i) ==
    RandSkip(rng, 2 * Cardinality({j \in 1..(i - 1) : BuildingZAdvanced(j) > 20000}))
LineDraws(i) ==
    RandSkip(rng, 2 * Cardinality({j \in 1..(i - 1) : LineZAdvanced(j) > 10000}))

\* the pool with every prop but prop i exchanged for another prop
OthersExchanged(pool, i) ==
    [j \in 1..Len(pool) |-> IF j = i THEN pool[i] ELSE pool[Len(pool) + 1 - j]]

\* the prop after prop i in the pool
NextProp(pool, i) == (i % Len(pool)) + 1

\* C18: advance-and-respawn runs independently per prop.  With the random
\* values drawn for each prop held fixed, the callback run on prop i writes
\* prop i only, its result for prop i does not change when the other props
\* are exchanged, running it on two props in either order gives the same
\* pool (so every order of the loop gives the same end of frame), and the
\* end of the frame has for each prop what the callback gives for it alone.
C18_PropsIndependent ==
    [][ /\ pc = "city" =>
              \A i \in BuildingIds :
                  LET k    == NextProp(buildings, i)
                      stepped == CityStep(buildings, i, delta, BuildingDraws(i))
                  IN  /\ buildings'[i] = stepped[i]
                      /\ \A j \in BuildingIds \ {i} : stepped[j] = buildings[j]
                      /\ CityStep(OthersExchanged(buildings, i), i, delta,
                                  BuildingDraws(i))[i] = stepped[i]
                      /\ CityStep(stepped, k, delta, BuildingDraws(k))
                           = CityStep(CityStep(buildings, k, delta,
                                               BuildingDraws(k)),
                                      i, delta, BuildingDraws(i))
        /\ pc = "lines" =>
              \A i \in LineIds :
                  LET k    == NextProp(lines, i)
                      stepped == LinesStep(lines, i, delta, LineDraws(i))
                  IN  /\ lines'[i] = stepped[i]
                      /\ \A j \in LineIds \ {i} : stepped[j] = lines[j]
                      /\ LinesStep(OthersExchanged(lines, i), i, delta,
                                   LineDraws(i))[i] = stepped[i]
                      /\ LinesStep(stepped, k, delta, LineDraws(k))
                           = LinesStep(LinesStep(lines, k, delta, LineDraws(k)),
                                       i, delta, LineDraws(i))
      ]_vars

\* a frame has respawned some buildings and advanced the others, and some
\* streaks likewise
C18_Witness ==
    /\ pc = "idle"
    /\ frames = 1
    /\ delta = 800
    /\ \E i \in BuildingIds, j \in BuildingIds :
          buildings[i].z = -150000 /\ buildings[j].z > -150000
    /\ \E i \in LineIds, j \in LineIds :
          lines[i].z = -100000 /\ lines[j].z > -100000

----------------------------------------------------------------------------
(* Bar colour *)

\* the interpolation factor a bar's colour was written with: the red channel
\* goes from 0 (cyan) to 1 (magenta), so it is the factor itself
ColourFactor(i) == bars[i].color.r

\* C20: the colour interpolation factor toward magenta is a non-decreasing
\* function of the bin energy over 0..255 and stays within [0, 1].
C20_ColourFactorMonotoneUnit ==
    \A i \in BarIds, j \in BarIds :
        (bars[i].written /\ bars[j].written) =>
            /\ ColourFactor(i) >= 0
            /\ ColourFactor(i) <= 1000
            /\ bars[i].data <= bars[j].data =>
                  ColourFactor(i) <= ColourFactor(j)

====
